---- MODULE Spec2Model ----
(***************************************************************************)
(* thermochem: burcat.py (Element, Mixture, Elementdb) and psicrometry.py  *)
(* (MoistAir) as a state machine.  A Mixture object is the pair mix, idx;  *)
(* every method call is one action that records the call in op and the     *)
(* object as it was before the call in pre.                                *)
(***************************************************************************)
EXTENDS Integers, Sequences, FiniteSets, TLC

(***************************************************************************)
(* Bounds of the model.                                                    *)
(***************************************************************************)
\* longest composition list the model builds
MaxLen == 3
\* significand width, in bits, of the binary floating point numbers
\* (CPython's float is IEEE-754 binary64; the rounding rule is the same)
Precision == 4

(***************************************************************************)
(* Python float arithmetic: a number is m * 2^e with m = 0 or              *)
(* 2^(Precision-1) <= |m| < 2^Precision, every operation rounds its exact  *)
(* result to the nearest such number, ties to even.  An operation binds   *)
(* its operands to their values before it computes, as Python does: in    *)
(* CHOOSE r \in {f(x) : x \in {v}} : TRUE the name x is the value of v,     *)
(* computed once, and the result is f(x).                                  *)
(***************************************************************************)
Abs(n) == IF n < 0 THEN -n ELSE n

Sign(n) == IF n < 0 THEN -1 ELSE 1

RECURSIVE BitLen(_)
BitLen(n) == IF n = 0 THEN 0 ELSE 1 + BitLen(n \div 2)

FZero == [m |-> 0, e |-> 0]

\* the float nearest to n * 2^e, for integers n and e
Nearest(n, e) ==
    IF n = 0 THEN FZero
    ELSE LET a == Abs(n)
             k == BitLen(a) - Precision
         IN  IF k <= 0 THEN [m |-> n * 2^(-k), e |-> e + k]
             ELSE LET q    == a \div 2^k
                      r    == a % 2^k
                      half == 2^(k - 1)
                      up   == r > half \/ (r = half /\ q % 2 = 1)
                      q2   == IF up THEN q + 1 ELSE q
                  IN  IF q2 = 2^Precision
                      THEN [m |-> Sign(n) * 2^(Precision - 1), e |-> e + k + 1]
                      ELSE [m |-> Sign(n) * q2, e |-> e + k]

\* Nearest with its operands evaluated once (x ranges over the one value)
Round(n, e) == CHOOSE r \in {Nearest(x[1], x[2]) : x \in {<<n, e>>}} : TRUE

\* float(n) of a Python int
FromInt(n) == Round(n, 0)

\* a * b
FMul(a, b) ==
    CHOOSE r \in {Nearest(x[1].m * x[2].m, x[1].e + x[2].e) : x \in {<<a, b>>}} : TRUE

\* the quotient of two floats, b # 0, taken to Precision + 2 bits plus a
\* sticky bit and then rounded
Quotient(a, b) ==
    LET n   == Abs(a.m) * 2^(Precision + 2)
        q   == n \div Abs(b.m)
        rem == n % Abs(b.m)
        s   == Sign(a.m) * Sign(b.m)
    IN  Round(s * (2 * q + (IF rem = 0 THEN 0 ELSE 1)), a.e - b.e - Precision - 3)

\* a / b for b # 0 (the callers raise ZeroDivisionError for b = 0)
FDiv(a, b) == CHOOSE r \in {Quotient(x[1], x[2]) : x \in {<<a, b>>}} : TRUE

\* the sum of two floats
Sum(a, b) ==
    IF a.m = 0 THEN b
    ELSE IF b.m = 0 THEN a
    ELSE IF a.e - b.e > Precision + 2 THEN a
    ELSE IF b.e - a.e > Precision + 2 THEN b
    ELSE LET e == IF a.e < b.e THEN a.e ELSE b.e
         IN  Round(a.m * 2^(a.e - e) + b.m * 2^(b.e - e), e)

\* a + b
FAdd(a, b) == CHOOSE r \in {Sum(x[1], x[2]) : x \in {<<a, b>>}} : TRUE

\* the float a decimal literal or float("n/d text") denotes
FromRat(n, d) == FDiv(FromInt(n), FromInt(d))

\* float(T ** k) for a Python int T, by k rounded multiplications (T ** 4
\* itself is beyond the 32-bit integers of TLC)
RECURSIVE FPow(_, _)
FPow(T, k) == IF k = 0 THEN FromInt(1) ELSE FMul(FPow(T, k - 1), FromInt(T))

\* |a - b| <= n units in the last place of b
WithinUlps(a, b, n) ==
    IF a = b THEN TRUE
    ELSE IF a.m = 0 \/ b.m = 0 THEN FALSE
    ELSE IF Abs(a.e - b.e) > 1 THEN FALSE
    ELSE LET e == IF a.e < b.e THEN a.e ELSE b.e
         IN  Abs(a.m * 2^(a.e - e) - b.m * 2^(b.e - e)) <= n * 2^(b.e - e)

(***************************************************************************)
(* Python values.                                                          *)
(***************************************************************************)
None == [py |-> "None"]

NoExc == "none"

OutOfRange == "ValueError: Temperature out of range"

NotAComponent == "ValueError: Not a component"

NoWater == "ValueError: No water in this gas"

ZeroDivision == "ZeroDivisionError"

AttributeErr == "AttributeError"

StopIteration == "StopIteration"

\* a call that returned v / a call that raised x
Returned(v) == [exc |-> NoExc, ret |-> v]

Raised(x) == [exc |-> x, ret |-> None]

\* Universal gas constant R
R == FromRat(8314472, 1000000)

(***************************************************************************)
(* Element                                                                 *)
(***************************************************************************)
\* Element.__init__; oid is the identity of the object created (Element
\* defines no __eq__, so two Elements are equal only when they are the same
\* object)
Element(oid, formula, Tmin_, Tmax, mm, hfr) ==
    [py |-> "Element", oid |-> oid, formula |-> formula, Tmin_ |-> Tmin_,
     Tmax |-> Tmax, mm |-> mm, hfr |-> hfr]

\* np.dot(c, Ta) of two sequences of equal length, summed left to right
RECURSIVE dot(_, _)
dot(c, Ta) ==
    IF Len(c) = 0 THEN FZero
    ELSE FAdd(dot(SubSeq(c, 1, Len(c) - 1), SubSeq(Ta, 1, Len(Ta) - 1)),
              FMul(c[Len(c)], Ta[Len(Ta)]))

\* np.log(T) for the positive temperatures of the model, from ln(T) * 1000;
\* for T <= 0 numpy gives -inf or nan with a warning, which no caller reads
\* because the range check that follows raises
NpLog(T) ==
    FromRat(CASE T = 1 -> 0 [] T = 199 -> 5293 [] T = 200 -> 5298
              [] T = 201 -> 5303 [] T = 298 -> 5697 [] T = 999 -> 6907
              [] T = 1000 -> 6908 [] T = 1001 -> 6909 [] T = 5999 -> 8699
              [] T = 6000 -> 8700 [] T = 6001 -> 8700
              [] OTHER -> 0, 1000)

cpo(self, T) ==
    LET Ta == <<FromInt(1), FromInt(T), FPow(T, 2), FPow(T, 3), FPow(T, 4)>>
    IN  IF T > 200 /\ T <= 1000
        THEN Returned(FMul(dot(SubSeq(self.Tmin_, 1, 5), Ta), R))
        ELSE IF T > 1000 /\ T < 6000
        THEN Returned(FMul(dot(SubSeq(self.Tmax, 1, 5), Ta), R))
        ELSE Raised(OutOfRange)

\* c is the outcome of self.cpo(T)
Element_cp_(self, T) ==
    CHOOSE r \in {IF c.exc # NoExc THEN c ELSE Returned(FDiv(c.ret, self.mm)) :
                    c \in {cpo(self, T)}} : TRUE

\* the list Ta is built, 1 / T included, before T is compared with the range
ho(self, T) ==
    IF T = 0 THEN Raised(ZeroDivision)
    ELSE LET Ta == <<FromInt(1), FDiv(FromInt(T), FromInt(2)),
                     FDiv(FPow(T, 2), FromInt(3)), FDiv(FPow(T, 3), FromInt(4)),
                     FDiv(FPow(T, 4), FromInt(5)), FDiv(FromInt(1), FromInt(T))>>
         IN  IF T > 200 /\ T <= 1000
             THEN Returned(FMul(FMul(dot(SubSeq(self.Tmin_, 1, 6), Ta), R), FromInt(T)))
             ELSE IF T > 1000 /\ T < 6000
             THEN Returned(FMul(FMul(dot(SubSeq(self.Tmax, 1, 6), Ta), R), FromInt(T)))
             ELSE Raised(OutOfRange)

so(self, T) ==
    LET Ta == <<NpLog(T), FromInt(T), FDiv(FPow(T, 2), FromInt(2)),
                FDiv(FPow(T, 3), FromInt(3)), FDiv(FPow(T, 4), FromInt(4)),
                FZero, FromInt(1)>>
    IN  IF T > 200 /\ T <= 1000
        THEN Returned(FMul(dot(self.Tmin_, Ta), R))
        ELSE IF T > 1000 /\ T < 6000
        THEN Returned(FMul(dot(self.Tmax, Ta), R))
        ELSE Raised(OutOfRange)

\* getattr(comp[0], attr)(T)
getattr(self, attr, T) ==
    CASE attr = "cp_" -> Element_cp_(self, T)
      [] attr = "cpo" -> cpo(self, T)
      [] attr = "ho"  -> ho(self, T)
      [] attr = "so"  -> so(self, T)

(***************************************************************************)
(* Elementdb                                                               *)
(***************************************************************************)
\* a number as the text of an XML node: <<numerator, denominator>>
Text(n, d) == <<n, d>>

\* float(c.text)
float(text) == FromRat(text[1], text[2])

\* self.db, the parsed BURCAT_THR.xml: a sequence of species, each a sequence
\* of child nodes; a "phase" node carries a formula, seven coefficients per
\* range, a molecular weight in g/mol and hf298_div_r
db ==
    << << [tag |-> "formula_name_structure"],
          [tag |-> "phase", formula |-> "H2O",
           range_Tmin_to_1000 |-> <<Text(4, 1), Text(-2, 1000), Text(0, 1), Text(0, 1),
                                    Text(0, 1), Text(-30000, 1), Text(-1, 1)>>,
           range_1000_to_Tmax |-> <<Text(3, 1), Text(2, 1000), Text(0, 1), Text(0, 1),
                                    Text(0, 1), Text(-29000, 1), Text(5, 1)>>,
           molecular_weight |-> Text(18, 1), hf298_div_r |-> Text(-29000, 1)] >>,
       << [tag |-> "phase", formula |-> "N2",
           range_Tmin_to_1000 |-> <<Text(7, 2), Text(0, 1), Text(0, 1), Text(0, 1),
                                    Text(0, 1), Text(-1000, 1), Text(3, 1)>>,
           range_1000_to_Tmax |-> <<Text(3, 1), Text(1, 1000), Text(0, 1), Text(0, 1),
                                    Text(0, 1), Text(-900, 1), Text(6, 1)>>,
           molecular_weight |-> Text(28, 1), hf298_div_r |-> Text(0, 1)] >> >>

element_matches(element, formula) ==
    element.tag = "phase" /\ element.formula = formula

\* the nodes of all species in the order the two nested loops visit them
RECURSIVE nodes(_)
nodes(species) ==
    IF Len(species) = 0 THEN <<>> ELSE Head(species) \o nodes(Tail(species))

\* the Element built from the first matching phase, None when the loops end
\* without a match (the function then falls off its end); oid is the
\* identity of the Element the call creates
RECURSIVE getelementdataFrom(_, _, _)
getelementdataFrom(ns, oid, formula) ==
    IF Len(ns) = 0 THEN None
    ELSE IF element_matches(Head(ns), formula)
    THEN LET phase == Head(ns)
             Tmin_ == [i \in 1..7 |-> float(phase.range_Tmin_to_1000[i])]
             Tmax  == [i \in 1..7 |-> float(phase.range_1000_to_Tmax[i])]
             mm    == FDiv(float(phase.molecular_weight), FromInt(1000))
             hfr   == float(phase.hf298_div_r)
         IN  Element(oid, formula, Tmin_, Tmax, mm, hfr)
    ELSE getelementdataFrom(Tail(ns), oid, formula)

getelementdata(oid, formula) == getelementdataFrom(nodes(db), oid, formula)

(***************************************************************************)
(* Mixture: self.mix is a sequence of <<component, prop>> pairs (e[0] and  *)
(* e[1] of the source are e[1] and e[2] here), self.idx the cursor.        *)
(***************************************************************************)
config == "vol"

\* Mixture.next at cursor i
next(m, i) ==
    IF i < Len(m)
    THEN [exc |-> NoExc, ret |-> m[i + 1], idx |-> i + 1]
    ELSE [exc |-> StopIteration, ret |-> None, idx |-> 0]

\* the formula read by e[0].formula: AttributeError on None
HasFormulaAttr(e) == e[1].py = "Element"

\* Mixture.__getitem__ with a str: the scan from position k with elem so far
RECURSIVE getitemScan(_, _, _, _)
getitemScan(m, k, i, elem) ==
    IF k > Len(m) THEN Returned(elem)
    ELSE IF ~HasFormulaAttr(m[k]) THEN Raised(AttributeErr)
    ELSE getitemScan(m, k + 1, i, IF i = m[k][1].formula THEN m[k] ELSE elem)

getitem(m, i) == getitemScan(m, 1, i, <<None, None>>)

\* Mixture.add
add(m, component, prop) == Append(m, <<component, prop>>)

\* list.remove(e): drops the first element equal to e
RECURSIVE remove(_, _)
remove(m, e) ==
    IF Len(m) = 0 THEN m
    ELSE IF Head(m) = e THEN Tail(m)
    ELSE <<Head(m)>> \o remove(Tail(m), e)

\* a delete loop whose flag records only the last comparison
RECURSIVE deleteLoopLastOnly(_, _, _, _)
deleteLoopLastOnly(m, k, formula, erased) ==
    IF k >= Len(m) THEN [mix |-> m, erased |-> erased, exc |-> NoExc]
    ELSE IF ~HasFormulaAttr(m[k + 1])
    THEN [mix |-> m, erased |-> erased, exc |-> AttributeErr]
    ELSE IF m[k + 1][1].formula = formula
    THEN deleteLoopLastOnly(remove(m, m[k + 1]), k + 1, formula, TRUE)
    ELSE deleteLoopLastOnly(m, k + 1, formula, FALSE)

\* the for loop of Mixture.delete: a list iterator at 0-based position k over
\* the list that the body shrinks while the loop runs
RECURSIVE deleteLoop(_, _, _, _)
deleteLoop(m, k, formula, erased) ==
    IF k >= Len(m) THEN [mix |-> m, erased |-> erased, exc |-> NoExc]
    ELSE IF ~HasFormulaAttr(m[k + 1])
    THEN [mix |-> m, erased |-> erased, exc |-> AttributeErr]
    ELSE IF m[k + 1][1].formula = formula
    THEN deleteLoop(remove(m, m[k + 1]), k + 1, formula, TRUE)
    ELSE deleteLoop(m, k + 1, formula, erased)

\* Mixture.delete: the list afterwards and the exception raised
delete(m, formula) ==
    LET r == deleteLoop(m, 0, formula, FALSE)
    IN  [mix |-> r.mix,
         exc |-> IF r.exc # NoExc THEN r.exc
                 ELSE IF ~r.erased THEN NotAComponent ELSE NoExc]

\* Nm += comp[1] over the list (Python ints)
RECURSIVE sumNm(_)
sumNm(m) == IF Len(m) = 0 THEN 0 ELSE sumNm(SubSeq(m, 1, Len(m) - 1)) + m[Len(m)][2]

\* Mm += comp[1] * comp[0].mm over the list
RECURSIVE sumMm(_)
sumMm(m) ==
    IF Len(m) = 0 THEN FZero
    ELSE FAdd(sumMm(SubSeq(m, 1, Len(m) - 1)),
              FMul(FromInt(m[Len(m)][2]), m[Len(m)][1].mm))

\* a molar mass that takes the quantities for percentages
Mixture_mmBy100(m) ==
    IF sumNm(m) = 0 THEN Raised(ZeroDivision)
    ELSE Returned(FDiv(sumMm(m), FromInt(100)))

\* Mixture.mm
Mixture_mm(m) ==
    IF config = "vol"
    THEN IF sumNm(m) = 0 THEN Raised(ZeroDivision)
         ELSE Returned(FDiv(sumMm(m), FromInt(sumNm(m))))
    ELSE Returned(None)

\* the loop "ext += comp[1] * comp[0].mm * iattr(T)" from position k with ext
\* so far; iattr is the outcome of the call iattr(T), which ends the loop
\* when it raises
RECURSIVE extLoop(_, _, _, _, _)
extLoop(m, k, attr, T, ext) ==
    IF k > Len(m) THEN Returned(ext)
    ELSE CHOOSE r \in
           {IF iattr.exc # NoExc THEN iattr
            ELSE extLoop(m, k + 1, attr, T,
                         FAdd(ext, FMul(FMul(FromInt(m[k][2]), m[k][1].mm), iattr.ret))) :
            iattr \in {getattr(m[k][1], attr, T)}} : TRUE

\* the end of Mixture.extensive: ext / Nm / Mm unless the loop raised
extensiveResult(ext, Nm, Mm) ==
    IF ext.exc # NoExc THEN ext ELSE Returned(FDiv(FDiv(ext.ret, Nm), Mm))

\* Mixture.extensive
extensive(m, attr, T) ==
    IF config = "vol"
    THEN IF sumNm(m) = 0 THEN Raised(ZeroDivision)
         ELSE CHOOSE r \in
                {extensiveResult(ext, FromInt(sumNm(m)),
                                 FDiv(sumMm(m), FromInt(sumNm(m)))) :
                 ext \in {extLoop(m, 1, attr, T, FZero)}} : TRUE
    ELSE Returned(None)

\* Mixture.cp_
Mixture_cp_(m, T) == extensive(m, "cp_", T)

\* Elementdb.getmixturedata; the Element created for components[k] gets the
\* identity k
RECURSIVE getmixturedata(_)
getmixturedata(components) ==
    IF Len(components) = 0 THEN <<>>
    ELSE LET n    == Len(components)
             comp == components[n]
         IN  add(getmixturedata(SubSeq(components, 1, n - 1)),
                 getelementdata(n, comp[1]), comp[2])

(***************************************************************************)
(* MoistAir                                                                *)
(***************************************************************************)
\* the loop "for e in self.gas: self.qgas += e[1]": iter(gas) is gas itself,
\* so the loop calls gas.next() from wherever the cursor stands until it
\* raises StopIteration
RECURSIVE qgasLoop(_, _, _)
qgasLoop(m, i, qgas) ==
    LET r == next(m, i)
    IN  IF r.exc = StopIteration THEN [qgas |-> qgas, idx |-> r.idx]
        ELSE qgasLoop(m, r.idx, qgas + r.ret[2])

\* a construction that deletes the water before it looks at what it found
MoistAir_initDeleteFirst(m, i) ==
    LET found  == getitem(m, "H2O")
        water  == found.ret[1]
        qwater == found.ret[2]
        gas    == delete(m, "H2O")
        lp     == qgasLoop(gas.mix, i, 0)
        gasmm  == Mixture_mm(gas.mix)
    IN  IF found.exc # NoExc
        THEN [mix |-> m, idx |-> i, exc |-> found.exc, ret |-> None]
        ELSE IF gas.exc # NoExc
        THEN [mix |-> gas.mix, idx |-> i, exc |-> gas.exc, ret |-> None]
        ELSE IF water = None
        THEN [mix |-> gas.mix, idx |-> i, exc |-> NoWater, ret |-> None]
        ELSE IF gasmm.exc # NoExc \/ lp.qgas = 0
        THEN [mix |-> gas.mix, idx |-> lp.idx, exc |-> ZeroDivision, ret |-> None]
        ELSE [mix |-> gas.mix, idx |-> lp.idx, exc |-> NoExc,
              ret |-> [py |-> "MoistAir", water |-> water, qwater |-> qwater,
                       qgas |-> lp.qgas,
                       w |-> FDiv(FMul(FDiv(water.mm, gasmm.ret), FromInt(qwater)),
                                  FromInt(lp.qgas))]]

\* MoistAir.__init__(gas) on the Mixture with list m and cursor i: the
\* Mixture afterwards, the exception raised and the object constructed
\* (self.moist = Water() touches neither gas nor these fields)
MoistAir_init(m, i) ==
    LET found  == getitem(m, "H2O")
        water  == found.ret[1]
        qwater == found.ret[2]
        gas    == delete(m, "H2O")
        lp     == qgasLoop(gas.mix, i, 0)
        gasmm  == Mixture_mm(gas.mix)
    IN  IF found.exc # NoExc
        THEN [mix |-> m, idx |-> i, exc |-> found.exc, ret |-> None]
        ELSE IF water = None
        THEN [mix |-> m, idx |-> i, exc |-> NoWater, ret |-> None]
        ELSE IF gas.exc # NoExc
        THEN [mix |-> gas.mix, idx |-> i, exc |-> gas.exc, ret |-> None]
        ELSE IF gasmm.exc # NoExc \/ lp.qgas = 0
        THEN [mix |-> gas.mix, idx |-> lp.idx, exc |-> ZeroDivision, ret |-> None]
        ELSE [mix |-> gas.mix, idx |-> lp.idx, exc |-> NoExc,
              ret |-> [py |-> "MoistAir", water |-> water, qwater |-> qwater,
                       qgas |-> lp.qgas,
                       w |-> FDiv(FMul(FDiv(water.mm, gasmm.ret), FromInt(qwater)),
                                  FromInt(lp.qgas))]]

(***************************************************************************)
(* The state: one Mixture object (mix, idx), the last call made (op), the  *)
(* Mixture as it was before that call (pre), and the for loop over the     *)
(* Mixture that the caller is running (loop).                              *)
(***************************************************************************)
VARIABLES mix, idx, op, pre, loop

vars == <<mix, idx, op, pre, loop>>

\* Elements a caller holds: two separate lookups of water, one of nitrogen
Elements == {getelementdata(1, "H2O"), getelementdata(2, "H2O"), getelementdata(3, "N2")}

\* formulas a caller asks for; "XX" is in no phase of the database
Formulas == {"H2O", "N2", "XX"}

\* quantities a caller passes (Python ints): 1 and a number that is no power
\* of two, so that the product with a molar mass is rounded
Quantities == {1, 3}

\* temperatures a caller passes to an Element, in K
Temps == {-1, 0, 1, 199, 200, 201, 298, 999, 1000, 1001, 5999, 6000, 6001}

\* temperatures a caller passes to a Mixture, in K
MixTemps == {200, 298, 1000, 1001}

Call(name, arg, exc, ret) == [name |-> name, arg |-> arg, exc |-> exc, ret |-> ret]

\* no for loop under observation
NoLoop == [state |-> "idle", yielded |-> <<>>]

\* Mixture.__init__
Init ==
    /\ mix = <<>>
    /\ idx = 0
    /\ op = Call("Mixture", None, NoExc, None)
    /\ pre = [mix |-> <<>>, idx |-> 0]
    /\ loop = NoLoop

\* the observed for loop is one whose body leaves the Mixture alone: any
\* other call on the Mixture ends the observation
Interrupted == NoLoop

\* mix.add(component, prop)
Add ==
    \E component \in Elements, prop \in Quantities :
        /\ Len(mix) < MaxLen
        /\ mix' = add(mix, component, prop)
        /\ op' = Call("add", <<component, prop>>, NoExc, None)
        /\ pre' = [mix |-> mix, idx |-> idx]
        /\ loop' = Interrupted
        /\ UNCHANGED idx

\* mix.delete(formula)
Delete ==
    \E formula \in Formulas :
        LET r == delete(mix, formula)
        IN  /\ mix' = r.mix
            /\ op' = Call("delete", formula, r.exc, None)
            /\ pre' = [mix |-> mix, idx |-> idx]
            /\ loop' = Interrupted
            /\ UNCHANGED idx

\* mix[formula]
GetItem ==
    \E formula \in Formulas :
        LET r == getitem(mix, formula)
        IN  /\ op' = Call("getitem", formula, r.exc, r.ret)
            /\ pre' = [mix |-> mix, idx |-> idx]
            /\ loop' = Interrupted
            /\ UNCHANGED <<mix, idx>>

\* next(mix), called directly or by a loop other than the observed one
Next ==
    LET r == next(mix, idx)
    IN  /\ idx' = r.idx
        /\ op' = Call("next", None, r.exc, r.ret)
        /\ pre' = [mix |-> mix, idx |-> idx]
        /\ loop' = Interrupted
        /\ UNCHANGED mix

\* "for e in mix:" begins: iter(mix) returns mix itself and changes nothing
ForStart ==
    /\ loop.state # "running"
    /\ loop' = [state |-> "running", yielded |-> <<>>]
    /\ op' = Call("iter", None, NoExc, None)
    /\ pre' = [mix |-> mix, idx |-> idx]
    /\ UNCHANGED <<mix, idx>>

\* the for loop asks for its next item: next(mix) yields it or ends the loop
ForStep ==
    /\ loop.state = "running"
    /\ LET r == next(mix, idx)
       IN  /\ idx' = r.idx
           /\ op' = Call("next", None, r.exc, r.ret)
           /\ loop' = IF r.exc = StopIteration
                      THEN [loop EXCEPT !.state = "ended"]
                      ELSE [loop EXCEPT !.yielded = Append(@, r.ret)]
    /\ pre' = [mix |-> mix, idx |-> idx]
    /\ UNCHANGED mix

\* the body of the for loop breaks out of it
ForBreak ==
    /\ loop.state = "running"
    /\ loop' = NoLoop
    /\ op' = Call("break", None, NoExc, None)
    /\ pre' = [mix |-> mix, idx |-> idx]
    /\ UNCHANGED <<mix, idx>>

\* MoistAir(mix)
MoistAirInit ==
    LET r == MoistAir_init(mix, idx)
    IN  /\ mix' = r.mix
        /\ idx' = r.idx
        /\ op' = Call("MoistAir", None, r.exc, r.ret)
        /\ pre' = [mix |-> mix, idx |-> idx]
        /\ loop' = Interrupted

\* mix = db.getmixturedata(components): the Mixture is a new one
GetMixtureData ==
    \E n \in 0 .. MaxLen :
        \E components \in [1 .. n -> Formulas \X Quantities] :
            /\ mix' = getmixturedata(components)
            /\ idx' = 0
            /\ op' = Call("getmixturedata", components, NoExc, None)
            /\ pre' = [mix |-> <<>>, idx |-> 0]
            /\ loop' = NoLoop

\* mix.mm
MolarMass ==
    \E r \in {Mixture_mm(mix)} :
        /\ op' = Call("mm", None, r.exc, r.ret)
        /\ pre' = [mix |-> mix, idx |-> idx]
        /\ loop' = Interrupted
        /\ UNCHANGED <<mix, idx>>

\* mix.cp_(T)
Cp_ ==
    \E T \in MixTemps :
        \E r \in {Mixture_cp_(mix, T)} :
            /\ op' = Call("cp_", T, r.exc, r.ret)
            /\ pre' = [mix |-> mix, idx |-> idx]
            /\ loop' = Interrupted
            /\ UNCHANGED <<mix, idx>>

\* element.cpo(T), element.ho(T), element.so(T)
Evaluate(attr) ==
    \E self \in Elements, T \in Temps :
        \E r \in {getattr(self, attr, T)} :
            /\ op' = Call(attr, [self |-> self, T |-> T], r.exc, r.ret)
            /\ pre' = [mix |-> mix, idx |-> idx]
            /\ loop' = Interrupted
            /\ UNCHANGED <<mix, idx>>

Cpo == Evaluate("cpo")

Ho == Evaluate("ho")

So == Evaluate("so")

\* Mixture: add, delete, lookup by formula
NextMixture == Add \/ Delete \/ GetItem

SpecMixture == Init /\ [][NextMixture]_vars

\* Mixture: iteration
NextIter == Add \/ Delete \/ ForStart \/ ForStep \/ ForBreak

SpecIter == Init /\ [][NextIter]_vars

\* MoistAir construction from a Mixture built by add
NextMoist == Add \/ MoistAirInit

SpecMoist == Init /\ [][NextMoist]_vars

\* MoistAir construction from a Mixture whose cursor the caller has moved
NextMoistCursor == Add \/ Next \/ MoistAirInit

SpecMoistCursor == Init /\ [][NextMoistCursor]_vars

\* Elementdb.getmixturedata
NextDb == GetMixtureData

SpecDb == Init /\ [][NextDb]_vars

\* Element evaluators
NextElement == Cpo \/ Ho \/ So

SpecElement == Init /\ [][NextElement]_vars

\* Mixture aggregates
NextThermo == Add \/ MolarMass \/ Cp_

SpecThermo == Init /\ [][NextThermo]_vars

(***************************************************************************)
(* Properties.  The entries of the Mixture in SpecMixture, SpecIter,       *)
(* SpecMoist, SpecMoistCursor and SpecThermo are the ones add() puts       *)
(* there, each holding an Element.                                         *)
(***************************************************************************)
\* some entry of m has formula f
HasFormula(m, f) == \E k \in 1 .. Len(m) : m[k][1].formula = f

\* the number of entries of m with formula f
Count(m, f) == Cardinality({k \in 1 .. Len(m) : m[k][1].formula = f})

\* the entry of m at the greatest position with formula f, (None, None) when
\* there is none
LastMatch(m, f) ==
    IF ~HasFormula(m, f) THEN <<None, None>>
    ELSE m[CHOOSE k \in 1 .. Len(m) :
             /\ m[k][1].formula = f
             /\ \A j \in (k + 1) .. Len(m) : m[j][1].formula # f]

\* C1: after delete(f) on a Mixture that held at least one entry with
\* formula f, no entry of the Mixture has formula f.
C1_DeleteRemovesAll ==
    (op.name = "delete" /\ HasFormula(pre.mix, op.arg)) =>
        (op.exc = NoExc /\ ~HasFormula(mix, op.arg))

C3_IterationRestartable == (loop.state = "ended") => (loop.yielded = mix)

\* C4: getmixturedata raises when a formula of its input is in no phase of
\* the database, and a Mixture it returns holds no entry without an Element.
C4_BuildMixtureFails ==
    op.name = "getmixturedata" =>
        /\ (\E k \in 1 .. Len(op.arg) : getelementdata(k, op.arg[k][1]) = None)
               => (op.exc # NoExc)
        /\ (op.exc = NoExc) => (\A k \in 1 .. Len(mix) : mix[k][1] # None)

\* C5: MoistAir(gas) succeeds only when gas holds exactly one entry with
\* formula "H2O".
C5_ExactlyOneWater ==
    (op.name = "MoistAir" /\ op.exc = NoExc) => (Count(pre.mix, "H2O") = 1)

LookupLastMatch ==
    op.name = "getitem" =>
        /\ op.exc = NoExc
        /\ op.ret = LastMatch(pre.mix, op.arg)
        /\ mix = pre.mix /\ idx = pre.idx

\* delete(f) applied to the current Mixture leaves no entry with formula f
DeleteRemovesEveryMatch ==
    \A f \in Formulas : ~HasFormula(delete(mix, f).mix, f)

\* C7: mix[f] is last-match-wins, returns (None, None) without a match and
\* does not change the Mixture, and delete(f) on the same Mixture removes
\* every match.
C7_LookupAndDelete == LookupLastMatch /\ DeleteRemovesEveryMatch

\* a lookup that chose the later of two entries with the same formula
LookupWitness ==
    /\ op.name = "getitem"
    /\ Count(pre.mix, op.arg) >= 2
    /\ op.ret = pre.mix[Len(pre.mix)]
    /\ op.ret # pre.mix[1]

\* the Element with the low-range (high-range) coefficients in both ranges
LowOnly(self) == [self EXCEPT !.Tmax = self.Tmin_]

HighOnly(self) == [self EXCEPT !.Tmin_ = self.Tmax]

\* C8: cpo, ho and so use the low-range coefficients for 200 < T <= 1000, the
\* high-range coefficients for 1000 < T < 6000, and raise the out-of-range
\* error for T <= 200 and for T >= 6000.
C8_BranchSelection ==
    op.name \in {"cpo", "ho", "so"} =>
        /\ (200 < op.arg.T /\ op.arg.T <= 1000) =>
               /\ op.exc = NoExc
               /\ op.ret = getattr(LowOnly(op.arg.self), op.name, op.arg.T).ret
        /\ (1000 < op.arg.T /\ op.arg.T < 6000) =>
               /\ op.exc = NoExc
               /\ op.ret = getattr(HighOnly(op.arg.self), op.name, op.arg.T).ret
        /\ (op.arg.T <= 200 \/ op.arg.T >= 6000) => (op.exc = OutOfRange)

\* the temperatures for which cp_ returns a value
ValidT(T) == 200 < T /\ T < 6000

\* C9 as the specification states it: for a Mixture of a single species, mm
\* is the molar mass of the species and cp_(T) the cp_(T) of the species,
\* exactly.
C9_DegenerateExact ==
    /\ (op.name = "mm" /\ Len(mix) = 1) => (op.ret = mix[1][1].mm)
    /\ (op.name = "cp_" /\ Len(mix) = 1 /\ ValidT(op.arg)) =>
           (op.ret = Element_cp_(mix[1][1], op.arg).ret)

\* C9: for a Mixture of a single species with quantity q, mm is the molar
\* mass of the species to within 2 units in the last place and cp_(T), for
\* a valid T, the cp_(T) of the species to within 5 units in the last place,
\* whatever q is.
C9_DegenerateRounded ==
    /\ (op.name = "mm" /\ Len(mix) = 1) =>
           (op.exc = NoExc /\ WithinUlps(op.ret, mix[1][1].mm, 2))
    /\ (op.name = "cp_" /\ Len(mix) = 1 /\ ValidT(op.arg)) =>
           /\ op.exc = NoExc
           /\ WithinUlps(op.ret, Element_cp_(mix[1][1], op.arg).ret, 5)

\* cp_ of a single species with a quantity other than 1 that came out
\* different from the cp_ of the species
C9_Witness ==
    /\ op.name = "cp_"
    /\ Len(mix) = 1
    /\ mix[1][2] = 3
    /\ ValidT(op.arg)
    /\ op.exc = NoExc
    /\ op.ret # Element_cp_(mix[1][1], op.arg).ret

\* C10: after MoistAir(gas) succeeded, its qgas is the sum of the quantities
\* of all entries left in gas.
C10_QgasIsSum ==
    (op.name = "MoistAir" /\ op.exc = NoExc) => (op.ret.qgas = sumNm(mix))

====
